---- MODULE Spec2Model ----
(***************************************************************************)
(* The Black-Scholes-Merton example of QuantLibTest: one run of main() of  *)
(* src/QuantLibTest3/QuantLibTest3.cpp (program a) next to one run of      *)
(* main() of src/unnamed/part_000 (program b), both against the same       *)
(* environment: which library call fails and how, and what the timer reads.*)
(* Standard output is a sequence of tokens, one per printed item.          *)
(***************************************************************************)
EXTENDS Integers, Sequences, FiniteSets, TLC

VARIABLES a, b, env

vars == <<a, b, env>>

(***************************************************************************)
(* Bounds of the model.                                                    *)
(***************************************************************************)
\* the timer is read in ticks of 1/TicksPerSecond seconds
TicksPerSecond == 2
\* the elapsed time ranges over 0 .. MaxHours hours and a fraction
MaxHours == 1

(***************************************************************************)
(* Real numbers are fixed-point integers with six decimals.                *)
(***************************************************************************)
Kilo == 10 * 100

Scale == Kilo * Kilo

Abs(x) == IF x < 0 THEN -x ELSE x

Sgn(x) == IF x < 0 THEN -1 ELSE 1

Max(x, y) == IF x > y THEN x ELSE y

\* x * y of two non-negative reals, split so that no product leaves 32 bits
MulAbs(x, y) ==
    LET xh == x \div Kilo
        xl == x % Kilo
        yh == y \div Kilo
        yl == y % Kilo
    IN xh * yh + (xh * yl + xl * yh) \div Kilo + (xl * yl) \div Scale

Mul(x, y) == Sgn(x) * Sgn(y) * MulAbs(Abs(x), Abs(y))

RECURSIVE DivDigits(_, _, _, _)
DivDigits(r, d, n, acc) ==
    IF n = 0 THEN acc
    ELSE DivDigits((r * 10) % d, d, n - 1, acc * 10 + (r * 10) \div d)

\* x / y of two non-negative reals by long division, six decimals
DivAbs(x, y) == (x \div y) * Scale + DivDigits(x % y, y, 6, 0)

Div(x, y) == Sgn(x) * Sgn(y) * DivAbs(Abs(x), Abs(y))

\* a real divided by a whole number, truncated towards zero
Quot(x, n) == Sgn(x) * (Abs(x) \div n)

RECURSIVE LnSum(_, _, _, _)
LnSum(pow, z2, k, n) ==
    IF k > n THEN 0
    ELSE Quot(pow, 2 * k + 1) + LnSum(Mul(pow, z2), z2, k + 1, n)

\* ln x = 2 artanh((x - 1) / (x + 1))
Ln(x) == LET z == Div(x - Scale, x + Scale) IN 2 * LnSum(z, Mul(z, z), 0, 12)

RECURSIVE ExpSum(_, _, _, _)
ExpSum(term, x, k, n) ==
    IF k > n THEN 0
    ELSE term + ExpSum(Quot(Mul(term, x), k + 1), x, k + 1, n)

Exp(x) == ExpSum(Scale, x, 0, 16)

RECURSIVE SqrtIter(_, _, _)
SqrtIter(x, y, n) ==
    IF n = 0 \/ y = 0 THEN y ELSE SqrtIter(x, (y + Div(x, y)) \div 2, n - 1)

Sqrt(x) == IF x = 0 THEN 0 ELSE SqrtIter(x, IF x > Scale THEN x ELSE Scale, 24)

\* 1 / sqrt(2 pi)
InvSqrt2Pi == 398942

RECURSIVE PhiSum(_, _, _, _)
PhiSum(c, x2, k, n) ==
    IF k > n THEN 0
    ELSE Quot(c, 2 * k + 1)
         + PhiSum(-Quot(Mul(c, x2), 2 * (k + 1)), x2, k + 1, n)

\* the standard normal cumulative distribution function, by its series at 0
Phi(x) == Scale \div 2 + Mul(InvSqrt2Pi, PhiSum(x, Mul(x, x), 0, 20))

(***************************************************************************)
(* Dates, as the library's Date(day, month, year), and the day counter the *)
(* example selects.                                                        *)
(***************************************************************************)
May == 5

Date(d, m, y) == [d |-> d, m |-> m, y |-> y]

\* Date(): the null date, the value of Settings' evaluation date at start
NullDate == Date(0, 0, 0)

IsLeap(y) == (y % 4 = 0 /\ y % 100 # 0) \/ y % 400 = 0

MonthOffset == <<0, 31, 59, 90, 120, 151, 181, 212, 243, 273, 304, 334>>

\* the number of the day in the proleptic Gregorian calendar
SerialNumber(dt) ==
    LET y1 == dt.y - 1
    IN 365 * y1 + y1 \div 4 - y1 \div 100 + y1 \div 400
       + MonthOffset[dt.m] + (IF dt.m > 2 /\ IsLeap(dt.y) THEN 1 ELSE 0)
       + dt.d

\* Actual365Fixed: the actual number of days between two dates ...
DayCount(d1, d2) == SerialNumber(d2) - SerialNumber(d1)

\* ... over 365
YearFraction(d1, d2) == Div(DayCount(d1, d2) * Scale, 365 * Scale)

(***************************************************************************)
(* The closed-form price of section 4.1 of the specification, which the    *)
(* library's AnalyticEuropeanEngine evaluates behind euro.NPV().           *)
(* type is +1 for a call and Option::Put = -1 for a put.                   *)
(***************************************************************************)
Put == 0 - 1

BlackScholesMertonPrice(type, S, K, r, q, sigma, T) ==
    LET sd == Mul(sigma, Sqrt(T))
        dfq == Exp(-Mul(q, T))
        dfr == Exp(-Mul(r, T))
        d1 == Div(Ln(Div(S, K)) + Mul(r - q + Quot(Mul(sigma, sigma), 2), T), sd)
        d2 == d1 - sd
    IN type * (Mul(Mul(S, dfq), Phi(type * d1)) - Mul(Mul(K, dfr), Phi(type * d2)))

(***************************************************************************)
(* Standard output and the state of one program.                           *)
(***************************************************************************)
\* one printed item: what it is, its text and its numbers
Tok(k, str, v) == [k |-> k, str |-> str, v |-> v]

Emit(s, toks) == [s EXCEPT !.out = @ \o toks]

NoInputs == [type |-> 0, underlying |-> 0, strike |-> 0, dividendYield |-> 0,
             riskFreeRate |-> 0, volatility |-> 0, maturity |-> NullDate,
             dayCounter |-> "none"]

\* the three curves' reference dates, the payoff, the exercise date and the
\* option's pricing engine
NoObjects == [flatTermStructure |-> NullDate, flatDividendTS |-> NullDate,
              flatVolTS |-> NullDate, underlyingH |-> 0,
              payoff |-> [type |-> 0, strike |-> 0], exercise |-> NullDate]

NoOption == [built |-> FALSE, engine |-> "none", calculated |-> FALSE, NPV |-> 0]

Start == [pc |-> "main", out |-> <<>>, evaluationDate |-> NullDate,
          todaysDate |-> NullDate, settlementDate |-> NullDate,
          in |-> NoInputs, objects |-> NoObjects, europeanOption |-> NoOption,
          exc |-> "none", ret |-> 0 - 1,
          hours |-> 0, minutes |-> 0, seconds |-> 0, stdinRead |-> FALSE]

Throw(s, kind) == [s EXCEPT !.exc = kind, !.pc = "catch"]

(***************************************************************************)
(* The environment of a run: the library call that fails ("none", the      *)
(* construction of the curve and option objects, or euro.NPV()), whether   *)
(* it throws a std::exception or something else, and the timer's reading.  *)
(***************************************************************************)
Faults == {"none", "build", "npv"}

Kinds == {"std", "other"}

TicksPerMinute == 60 * TicksPerSecond

TicksPerHour == 3600 * TicksPerSecond

MaxElapsed == (MaxHours + 1) * TicksPerHour - 1

\* readings around every boundary of the decomposition
ElapsedSamples ==
    {h * TicksPerHour + m * TicksPerMinute + t :
        h \in 0 .. MaxHours, m \in {0, 1, 59},
        t \in {0, 1, TicksPerMinute - 1}}

(***************************************************************************)
(* Program a: src/QuantLibTest3/QuantLibTest3.cpp                          *)
(***************************************************************************)
\* void PrintInputs(std::ostream&, const OptionInputs&)
A_PrintInputs(s, in) ==
    Emit(s, <<Tok("inputs", in.dayCounter,
                  <<in.type, SerialNumber(in.maturity), in.underlying, in.strike,
                    in.riskFreeRate, in.dividendYield, in.volatility>>),
              Tok("endl", "", <<>>)>>)

\* void PrintResRow(const std::string& method, OutputEl Euro)
A_PrintResRow(s, method, str, num) == Emit(s, <<Tok(method, str, num)>>)

\* void PressEnter()
A_PressEnter(s) ==
    [Emit(s, <<Tok("prompt", "Press <Enter> to continue...", <<>>)>>)
        EXCEPT !.stdinRead = TRUE]

\* A_BlackScholes with the row printed before euro.NPV() is evaluated
A_BlackScholes_RowFirst(s, e) ==
    LET s1 == [A_PrintResRow(s, "Black-Scholes", "", <<0>>)
                  EXCEPT !.europeanOption.engine = "AnalyticEuropeanEngine"]
    IN IF e.fault = "npv"
       THEN Throw(s1, e.kind)
       ELSE [s1 EXCEPT !.europeanOption.calculated = TRUE, !.pc = "Elapsed"]

\* A_BlackScholes moving the global evaluation date to the curves' date
A_BlackScholes_MovesEvaluationDate(s, e) ==
    LET o == s.objects
        npv == BlackScholesMertonPrice(o.payoff.type, o.underlyingH,
                                       o.payoff.strike, s.in.riskFreeRate,
                                       s.in.dividendYield, s.in.volatility,
                                       YearFraction(o.flatVolTS, o.exercise))
        s1 == [s EXCEPT !.europeanOption.engine = "AnalyticEuropeanEngine",
                        !.evaluationDate = o.flatVolTS]
    IN IF e.fault = "npv"
       THEN Throw(s1, e.kind)
       ELSE [A_PrintResRow(s1, "Black-Scholes", "", <<npv>>)
                EXCEPT !.europeanOption.calculated = TRUE,
                       !.europeanOption.NPV = npv,
                       !.pc = "Elapsed"]

\* void BlackScholes(VanillaOption& euro, shared_ptr<BlackScholesMertonProcess>)
\* after setPricingEngine, euro.NPV() is evaluated before the row is printed
A_BlackScholes(s, e) ==
    LET euro == [s.europeanOption EXCEPT !.engine = "AnalyticEuropeanEngine"]
        o == s.objects
        T == YearFraction(o.flatVolTS, o.exercise)
        npv == BlackScholesMertonPrice(o.payoff.type, o.underlyingH,
                                       o.payoff.strike, s.in.riskFreeRate,
                                       s.in.dividendYield, s.in.volatility, T)
        s1 == [s EXCEPT !.europeanOption = euro]
    IN IF e.fault = "npv"
       THEN Throw(s1, e.kind)
       ELSE [A_PrintResRow(s1, "Black-Scholes", "", <<npv>>)
                EXCEPT !.europeanOption.calculated = TRUE,
                       !.europeanOption.NPV = npv,
                       !.pc = "Elapsed"]

\* EquityOption, lines 144-150: the dates and the global evaluation date
A_SetUpDates(s) ==
    LET todaysDate == Date(15, May, 1998)
        settlementDate == Date(17, May, 1998)
    IN [Emit(s, <<Tok("endl", "", <<>>)>>)
           EXCEPT !.todaysDate = todaysDate,
                  !.settlementDate = settlementDate,
                  !.evaluationDate = todaysDate,
                  !.pc = "SetUpInputs"]

\* A_SetUpInputs with the call of the commented-out line instead of the put
A_SetUpInputs_Call(s) ==
    [s EXCEPT !.in = [type |-> 1,
                      underlying |-> 36 * Scale,
                      strike |-> 40 * Scale,
                      dividendYield |-> 0,
                      riskFreeRate |-> (6 * Scale) \div 100,
                      volatility |-> (20 * Scale) \div 100,
                      maturity |-> Date(17, May, 1999),
                      dayCounter |-> "Actual365Fixed"],
              !.pc = "PrintInputs"]

\* EquityOption, lines 153-163: the option's parameters
A_SetUpInputs(s) ==
    [s EXCEPT !.in = [type |-> Put,
                      underlying |-> 36 * Scale,
                      strike |-> 40 * Scale,
                      dividendYield |-> 0,
                      riskFreeRate |-> (6 * Scale) \div 100,
                      volatility |-> (20 * Scale) \div 100,
                      maturity |-> Date(17, May, 1999),
                      dayCounter |-> "Actual365Fixed"],
              !.pc = "PrintInputs"]

\* EquityOption, lines 166-174: the inputs, today's date, the column headings
A_PrintReport(s) ==
    LET s1 == Emit(A_PrintInputs(s, s.in), <<Tok("endl", "", <<>>)>>)
        s2 == Emit(s1, <<Tok("today", "Today's Date : ",
                             <<SerialNumber(s.todaysDate)>>)>>)
    IN [A_PrintResRow(s2, "Method", "European", <<>>) EXCEPT !.pc = "Build"]

\* A_BuildObjects with the curves built from today's date
A_BuildObjects_FromToday(s, e) ==
    IF e.fault = "build"
    THEN Throw(s, e.kind)
    ELSE [s EXCEPT !.objects =
                      [exercise |-> s.in.maturity,
                       underlyingH |-> s.in.underlying,
                       flatTermStructure |-> s.todaysDate,
                       flatDividendTS |-> s.todaysDate,
                       flatVolTS |-> s.todaysDate,
                       payoff |-> [type |-> s.in.type, strike |-> s.in.strike]],
                  !.europeanOption.built = TRUE,
                  !.pc = "BlackScholes"]

\* EquityOption, lines 176-214: the exercise, the quote, the three flat
\* curves, the payoff, the process and the option
A_BuildObjects(s, e) ==
    IF e.fault = "build"
    THEN Throw(s, e.kind)
    ELSE [s EXCEPT !.objects =
                      [exercise |-> s.in.maturity,
                       underlyingH |-> s.in.underlying,
                       flatTermStructure |-> s.settlementDate,
                       flatDividendTS |-> s.settlementDate,
                       flatVolTS |-> s.settlementDate,
                       payoff |-> [type |-> s.in.type, strike |-> s.in.strike]],
                  !.europeanOption.built = TRUE,
                  !.pc = "BlackScholes"]

\* A_Elapsed with the minutes taken from the whole reading
A_Elapsed_MinutesOfTotal(s, e) ==
    LET t == e.elapsed
        hours == t \div TicksPerHour
        minutes == t \div TicksPerMinute
        seconds == t - hours * TicksPerHour - (minutes % 60) * TicksPerMinute
    IN [Emit(s, <<Tok("timing", " \nRun completed in ", <<>>)>>
                \o (IF hours > 0 THEN <<Tok("h", " h ", <<hours>>)>> ELSE <<>>)
                \o (IF hours > 0 \/ minutes > 0
                    THEN <<Tok("m", " m ", <<minutes>>)>> ELSE <<>>)
                \o <<Tok("s", " s\n", <<seconds>>)>>)
           EXCEPT !.hours = hours, !.minutes = minutes, !.seconds = seconds,
                  !.pc = "PressEnter"]

\* main, lines 236-249: the elapsed time, decomposed and printed
A_Elapsed(s, e) ==
    LET t == e.elapsed
        hours == t \div TicksPerHour
        t1 == t - hours * TicksPerHour
        minutes == t1 \div TicksPerMinute
        seconds == t1 - minutes * TicksPerMinute
    IN [Emit(s, <<Tok("timing", " \nRun completed in ", <<>>)>>
                \o (IF hours > 0 THEN <<Tok("h", " h ", <<hours>>)>> ELSE <<>>)
                \o (IF hours > 0 \/ minutes > 0
                    THEN <<Tok("m", " m ", <<minutes>>)>> ELSE <<>>)
                \o <<Tok("s", " s\n", <<seconds>>)>>)
           EXCEPT !.hours = hours, !.minutes = minutes, !.seconds = seconds,
                  !.pc = "PressEnter"]

\* main, line 255
A_Return(s) == [s EXCEPT !.ret = 0, !.pc = "done"]

\* main, lines 259-262: catch (std::exception& e)
A_CatchStd(s) ==
    [Emit(s, <<Tok("error", "e.what()", <<>>)>>)
        EXCEPT !.exc = "none", !.ret = 1, !.pc = "done"]

\* A_CatchAll reporting success
A_CatchAll_Returns0(s) ==
    [Emit(s, <<Tok("error", "unknown error", <<>>)>>)
        EXCEPT !.exc = "none", !.ret = 0, !.pc = "done"]

\* main, lines 265-268: catch (...)
A_CatchAll(s) ==
    [Emit(s, <<Tok("error", "unknown error", <<>>)>>)
        EXCEPT !.exc = "none", !.ret = 1, !.pc = "done"]

(***************************************************************************)
(* Program b: src/unnamed/part_000                                         *)
(***************************************************************************)
\* void PrintInputs(std::ostream&, const OptionInputs&)
B_PrintInputs(s, in) ==
    Emit(s, <<Tok("inputs", in.dayCounter,
                  <<in.type, SerialNumber(in.maturity), in.underlying, in.strike,
                    in.riskFreeRate, in.dividendYield, in.volatility>>),
              Tok("endl", "", <<>>)>>)

\* void PrintResRow(const std::string& method, OutputEl Euro)
B_PrintResRow(s, method, str, num) == Emit(s, <<Tok(method, str, num)>>)

\* B_PressEnter with the prompt lost when PressEnter was written into main
B_PressEnter_NoPrompt(s) == [s EXCEPT !.stdinRead = TRUE]

\* main, lines 226-227: the prompt and std::cin.ignore(), written in main
B_PressEnter(s) ==
    [Emit(s, <<Tok("prompt", "Press <Enter> to continue...", <<>>)>>)
        EXCEPT !.stdinRead = TRUE]

\* void BlackScholesEx(VanillaOption& euro, shared_ptr<BlackScholesMertonProcess>)
\* after setPricingEngine, euro.NPV() is evaluated before the row is printed
B_BlackScholesEx(s, e) ==
    LET euro == [s.europeanOption EXCEPT !.engine = "AnalyticEuropeanEngine"]
        o == s.objects
        T == YearFraction(o.flatVolTS, o.exercise)
        npv == BlackScholesMertonPrice(o.payoff.type, o.underlyingH,
                                       o.payoff.strike, s.in.riskFreeRate,
                                       s.in.dividendYield, s.in.volatility, T)
        s1 == [s EXCEPT !.europeanOption = euro]
    IN IF e.fault = "npv"
       THEN Throw(s1, e.kind)
       ELSE [B_PrintResRow(s1, "Black-Scholes", "", <<npv>>)
                EXCEPT !.europeanOption.calculated = TRUE,
                       !.europeanOption.NPV = npv,
                       !.pc = "Elapsed"]

\* EquityOption, lines 116-122: the dates and the global evaluation date
B_SetUpDates(s) ==
    LET todaysDate == Date(15, May, 1998)
        settlementDate == Date(17, May, 1998)
    IN [Emit(s, <<Tok("endl", "", <<>>)>>)
           EXCEPT !.todaysDate = todaysDate,
                  !.settlementDate = settlementDate,
                  !.evaluationDate = todaysDate,
                  !.pc = "SetUpInputs"]

\* EquityOption, lines 125-136: the option's parameters
B_SetUpInputs(s) ==
    [s EXCEPT !.in = [type |-> Put,
                      underlying |-> 36 * Scale,
                      strike |-> 40 * Scale,
                      dividendYield |-> 0,
                      riskFreeRate |-> (6 * Scale) \div 100,
                      volatility |-> (20 * Scale) \div 100,
                      maturity |-> Date(17, May, 1999),
                      dayCounter |-> "Actual365Fixed"],
              !.pc = "PrintInputs"]

\* EquityOption, lines 138-145: the inputs, today's date, the column headings
B_PrintReport(s) ==
    LET s1 == Emit(B_PrintInputs(s, s.in), <<Tok("endl", "", <<>>)>>)
        s2 == Emit(s1, <<Tok("today", "Today's Date : ",
                             <<SerialNumber(s.todaysDate)>>)>>)
    IN [B_PrintResRow(s2, "Method", "European", <<>>) EXCEPT !.pc = "Build"]

\* EquityOption, lines 156-193: the exercise, the quote, the three flat
\* curves, the payoff, the process and the option
B_BuildObjects(s, e) ==
    IF e.fault = "build"
    THEN Throw(s, e.kind)
    ELSE [s EXCEPT !.objects =
                      [exercise |-> s.in.maturity,
                       underlyingH |-> s.in.underlying,
                       flatTermStructure |-> s.settlementDate,
                       flatDividendTS |-> s.settlementDate,
                       flatVolTS |-> s.settlementDate,
                       payoff |-> [type |-> s.in.type, strike |-> s.in.strike]],
                  !.europeanOption.built = TRUE,
                  !.pc = "BlackScholes"]

\* main, lines 213-224: the elapsed time, decomposed and printed
B_Elapsed(s, e) ==
    LET t == e.elapsed
        hours == t \div TicksPerHour
        t1 == t - hours * TicksPerHour
        minutes == t1 \div TicksPerMinute
        seconds == t1 - minutes * TicksPerMinute
    IN [Emit(s, <<Tok("timing", " \nRun completed in ", <<>>)>>
                \o (IF hours > 0 THEN <<Tok("h", " h ", <<hours>>)>> ELSE <<>>)
                \o (IF hours > 0 \/ minutes > 0
                    THEN <<Tok("m", " m ", <<minutes>>)>> ELSE <<>>)
                \o <<Tok("s", " s\n", <<seconds>>)>>)
           EXCEPT !.hours = hours, !.minutes = minutes, !.seconds = seconds,
                  !.pc = "PressEnter"]

\* main, line 229
B_Return(s) == [s EXCEPT !.ret = 0, !.pc = "done"]

\* main, lines 232-235: catch (std::exception& e)
B_CatchStd(s) ==
    [Emit(s, <<Tok("error", "e.what()", <<>>)>>)
        EXCEPT !.exc = "none", !.ret = 1, !.pc = "done"]

\* main, lines 236-239: catch (...)
B_CatchAll(s) ==
    [Emit(s, <<Tok("error", "unknown error", <<>>)>>)
        EXCEPT !.exc = "none", !.ret = 1, !.pc = "done"]


(***************************************************************************)
(* The steps of program a.                                                 *)
(***************************************************************************)
\* main: boost::timer timer
a_StartTimer ==
    /\ a.pc = "main"
    /\ a' = [a EXCEPT !.pc = "SetUpDates"]
    /\ UNCHANGED <<b, env>>

a_SetUpDates ==
    /\ a.pc = "SetUpDates"
    /\ a' = A_SetUpDates(a)
    /\ UNCHANGED <<b, env>>

a_SetUpInputs ==
    /\ a.pc = "SetUpInputs"
    /\ a' = A_SetUpInputs(a)
    /\ UNCHANGED <<b, env>>

a_PrintReport ==
    /\ a.pc = "PrintInputs"
    /\ a' = A_PrintReport(a)
    /\ UNCHANGED <<b, env>>

a_BuildObjects ==
    /\ a.pc = "Build"
    /\ a' = A_BuildObjects(a, env)
    /\ UNCHANGED <<b, env>>

a_BlackScholes ==
    /\ a.pc = "BlackScholes"
    /\ a' = A_BlackScholes(a, env)
    /\ UNCHANGED <<b, env>>

a_Elapsed ==
    /\ a.pc = "Elapsed"
    /\ a' = A_Elapsed(a, env)
    /\ UNCHANGED <<b, env>>

a_PressEnter ==
    /\ a.pc = "PressEnter"
    /\ a' = [A_PressEnter(a) EXCEPT !.pc = "Return"]
    /\ UNCHANGED <<b, env>>

a_Return ==
    /\ a.pc = "Return"
    /\ a' = A_Return(a)
    /\ UNCHANGED <<b, env>>

a_CatchStd ==
    /\ a.pc = "catch"
    /\ a.exc = "std"
    /\ a' = A_CatchStd(a)
    /\ UNCHANGED <<b, env>>

a_CatchAll ==
    /\ a.pc = "catch"
    /\ a.exc # "std"
    /\ a' = A_CatchAll(a)
    /\ UNCHANGED <<b, env>>

(***************************************************************************)
(* The steps of program b.                                                 *)
(***************************************************************************)
\* main: boost::timer timer
b_StartTimer ==
    /\ b.pc = "main"
    /\ b' = [b EXCEPT !.pc = "SetUpDates"]
    /\ UNCHANGED <<a, env>>

b_SetUpDates ==
    /\ b.pc = "SetUpDates"
    /\ b' = B_SetUpDates(b)
    /\ UNCHANGED <<a, env>>

b_SetUpInputs ==
    /\ b.pc = "SetUpInputs"
    /\ b' = B_SetUpInputs(b)
    /\ UNCHANGED <<a, env>>

b_PrintReport ==
    /\ b.pc = "PrintInputs"
    /\ b' = B_PrintReport(b)
    /\ UNCHANGED <<a, env>>

b_BuildObjects ==
    /\ b.pc = "Build"
    /\ b' = B_BuildObjects(b, env)
    /\ UNCHANGED <<a, env>>

b_BlackScholesEx ==
    /\ b.pc = "BlackScholes"
    /\ b' = B_BlackScholesEx(b, env)
    /\ UNCHANGED <<a, env>>

b_Elapsed ==
    /\ b.pc = "Elapsed"
    /\ b' = B_Elapsed(b, env)
    /\ UNCHANGED <<a, env>>

b_PressEnter ==
    /\ b.pc = "PressEnter"
    /\ b' = [B_PressEnter(b) EXCEPT !.pc = "Return"]
    /\ UNCHANGED <<a, env>>

b_Return ==
    /\ b.pc = "Return"
    /\ b' = B_Return(b)
    /\ UNCHANGED <<a, env>>

b_CatchStd ==
    /\ b.pc = "catch"
    /\ b.exc = "std"
    /\ b' = B_CatchStd(b)
    /\ UNCHANGED <<a, env>>

b_CatchAll ==
    /\ b.pc = "catch"
    /\ b.exc # "std"
    /\ b' = B_CatchAll(b)
    /\ UNCHANGED <<a, env>>

(***************************************************************************)
(* The two runs, side by side.                                             *)
(***************************************************************************)
Init ==
    /\ env \in [fault : Faults, kind : Kinds, elapsed : ElapsedSamples]
    /\ a = Start
    /\ b = Start

Next ==
    \/ a_StartTimer \/ a_SetUpDates \/ a_SetUpInputs \/ a_PrintReport
    \/ a_BuildObjects \/ a_BlackScholes \/ a_Elapsed \/ a_PressEnter
    \/ a_Return \/ a_CatchStd \/ a_CatchAll
    \/ b_StartTimer \/ b_SetUpDates \/ b_SetUpInputs \/ b_PrintReport
    \/ b_BuildObjects \/ b_BlackScholesEx \/ b_Elapsed \/ b_PressEnter
    \/ b_Return \/ b_CatchStd \/ b_CatchAll

Spec == Init /\ [][Next]_vars

(***************************************************************************)
(* The elapsed-time decomposition alone, over every reading of the timer   *)
(* up to MaxElapsed, from the state in which EquityOption has returned.    *)
(***************************************************************************)
NoFault == [fault |-> "none", kind |-> "std", elapsed |-> 0]

InitTime ==
    /\ a = A_BlackScholes(A_BuildObjects(A_PrintReport(A_SetUpInputs(
               A_SetUpDates([Start EXCEPT !.pc = "SetUpDates"]))), NoFault),
               NoFault)
    /\ b = B_BlackScholesEx(B_BuildObjects(B_PrintReport(B_SetUpInputs(
               B_SetUpDates([Start EXCEPT !.pc = "SetUpDates"]))), NoFault),
               NoFault)
    /\ env \in [fault : {"none"}, kind : {"std"}, elapsed : 0 .. MaxElapsed]

NextTime == a_Elapsed \/ b_Elapsed

SpecTime == InitTime /\ [][NextTime]_vars

(***************************************************************************)
(* What the claims speak of.                                               *)
(***************************************************************************)
\* how many items of kind k standard output holds
Count(out, k) == Cardinality({i \in DOMAIN out : out[i].k = k})

\* where the first item of kind k is (0: nowhere)
Pos(out, k) ==
    IF Count(out, k) = 0 THEN 0
    ELSE CHOOSE i \in DOMAIN out :
            out[i].k = k /\ \A j \in DOMAIN out : out[j].k = k => i <= j

IsPrefix(x, y) == Len(x) <= Len(y) /\ SubSeq(y, 1, Len(x)) = x

ExampleInputs ==
    [type |-> Put, underlying |-> 36 * Scale, strike |-> 40 * Scale,
     dividendYield |-> 0, riskFreeRate |-> (6 * Scale) \div 100,
     volatility |-> (20 * Scale) \div 100, maturity |-> Date(17, May, 1999),
     dayCounter |-> "Actual365Fixed"]

\* x is y to the cent: |x - y| <= 0.005
ToTheCent(x, y) == Abs(x - y) * 200 <= Scale

(***************************************************************************)
(* C3, as stated: the time to maturity is the Actual/365 count from the    *)
(* evaluation date set in Settings to the maturity date, for every date    *)
(* the rate, dividend and volatility curves are constructed from.          *)
(***************************************************************************)
C3_TimeFromEvaluationDate ==
    a.europeanOption.built =>
        \A d \in {a.objects.flatTermStructure, a.objects.flatDividendTS,
                  a.objects.flatVolTS} :
            /\ d = a.evaluationDate
            /\ YearFraction(d, a.objects.exercise)
                   = YearFraction(a.evaluationDate, a.objects.exercise)

(***************************************************************************)
(* C3, as amended: the rate, dividend and volatility curves are all        *)
(* constructed from the settlement date 17-May-1998, two days after the    *)
(* evaluation date 15-May-1998 set in Settings; the Actual/365 count from  *)
(* the curves' date to the maturity 17-May-1999 is 365 days, T = 1, while  *)
(* from the evaluation date it is 367 days.                                *)
(***************************************************************************)
C3_TimeFromSettlementDate ==
    a.europeanOption.built =>
        /\ a.evaluationDate = Date(15, May, 1998)
        /\ a.settlementDate = Date(17, May, 1998)
        /\ a.objects.exercise = Date(17, May, 1999)
        /\ DayCount(a.evaluationDate, a.objects.exercise) = 367
        /\ \A d \in {a.objects.flatTermStructure, a.objects.flatDividendTS,
                     a.objects.flatVolTS} :
              /\ d = a.settlementDate
              /\ DayCount(d, a.objects.exercise) = 365
              /\ YearFraction(d, a.objects.exercise) = Scale

C3_Witness ==
    /\ a.europeanOption.calculated
    /\ a.objects.flatVolTS = Date(17, May, 1998)
    /\ a.evaluationDate = Date(15, May, 1998)

(***************************************************************************)
(* C4: the example run prices exactly one option, the put with S = 36,     *)
(* K = 40, r = 0.06, q = 0, sigma = 0.20 and T = 365/365 = 1 year, and the *)
(* net present value in its "Black-Scholes" row is 3.84 to the cent.       *)
(***************************************************************************)
C4_ExampleRun ==
    /\ Count(a.out, "Black-Scholes") <= 1
    /\ a.pc = "done" /\ a.ret = 0 => Count(a.out, "Black-Scholes") = 1
    /\ Count(a.out, "Black-Scholes") = 1 =>
          /\ a.in = ExampleInputs
          /\ a.objects.payoff = [type |-> Put, strike |-> 40 * Scale]
          /\ a.objects.underlyingH = 36 * Scale
          /\ DayCount(Date(17, May, 1998), Date(17, May, 1999)) = 365
          /\ YearFraction(a.objects.flatVolTS, a.objects.exercise) = Scale
          /\ a.out[Pos(a.out, "Black-Scholes")].v = <<a.europeanOption.NPV>>
          /\ ToTheCent(a.europeanOption.NPV, (384 * Scale) \div 100)

C4_Witness ==
    /\ a.pc = "done"
    /\ a.ret = 0
    /\ Count(a.out, "Black-Scholes") = 1
    /\ a.europeanOption.NPV > 0

(***************************************************************************)
(* C6, as stated: pricing leaves everything but its result unchanged: the  *)
(* evaluation-date setting and the option object passed in are not         *)
(* mutated, and what was built for the request is read-only afterwards.    *)
(***************************************************************************)
C6_PricingMutatesNothing ==
    [][a.pc = "BlackScholes" =>
          /\ a'.evaluationDate = a.evaluationDate
          /\ a'.europeanOption.engine = a.europeanOption.engine
          /\ a'.europeanOption.built = a.europeanOption.built
          /\ a'.in = a.in
          /\ a'.objects = a.objects]_vars

(***************************************************************************)
(* C6, as amended: the pricing call BlackScholes leaves the evaluation     *)
(* date, the inputs, the curves, the payoff and the other program          *)
(* unchanged, but it mutates the option passed in: it installs the pricing *)
(* engine (and on success the option holds its NPV). The evaluation date   *)
(* is mutated once, by EquityOption before anything is built; once the     *)
(* objects are built, the inputs, the curves and the evaluation date are   *)
(* never changed again.                                                    *)
(***************************************************************************)
C6_PricingMutatesOnlyTheOption ==
    [][/\ (a.pc = "BlackScholes" /\ a'.pc # "BlackScholes") =>
             /\ a'.evaluationDate = a.evaluationDate
             /\ a'.in = a.in
             /\ a'.objects = a.objects
             /\ b' = b
             /\ a.europeanOption.engine = "none"
             /\ a'.europeanOption.engine = "AnalyticEuropeanEngine"
             /\ a'.europeanOption.calculated = (a'.pc = "Elapsed")
       /\ a'.evaluationDate # a.evaluationDate =>
             /\ a.pc = "SetUpDates"
             /\ a.evaluationDate = NullDate
             /\ ~a.europeanOption.built
       /\ a.europeanOption.built =>
             /\ a'.in = a.in
             /\ a'.objects = a.objects
             /\ a'.evaluationDate = a.evaluationDate]_vars

C6_Witness ==
    /\ a.europeanOption.engine = "AnalyticEuropeanEngine"
    /\ a.europeanOption.calculated
    /\ a.evaluationDate = Date(15, May, 1998)

(***************************************************************************)
(* C7: the two files are the same program: against the same environment    *)
(* the two runs are in the same state whenever they are at the same place, *)
(* one's standard output is always a prefix of the other's, and they end   *)
(* with the same output, the same read of standard input and the same exit *)
(* code, in the normal path and in each exception path.                    *)
(***************************************************************************)
C7_SameProgram ==
    /\ a.pc = b.pc => a = b
    /\ IsPrefix(a.out, b.out) \/ IsPrefix(b.out, a.out)
    /\ a.pc = "done" /\ b.pc = "done" =>
          /\ a.out = b.out
          /\ a.ret = b.ret
          /\ a.stdinRead = b.stdinRead
          /\ a.evaluationDate = b.evaluationDate

C7_Witness ==
    /\ a.pc = "done"
    /\ b.pc = "done"
    /\ a.ret = 0
    /\ b.stdinRead
    /\ Count(b.out, "prompt") = 1

(***************************************************************************)
(* C8, as stated: a finished run has written either the complete report    *)
(* (the inputs, the header row and the NPV row) or, when pricing failed,   *)
(* none of it.                                                             *)
(***************************************************************************)
C8_AllOrNothing ==
    a.pc = "done" =>
        \/ /\ Count(a.out, "inputs") = 1
           /\ Count(a.out, "Method") = 1
           /\ Count(a.out, "Black-Scholes") = 1
        \/ /\ Count(a.out, "inputs") = 0
           /\ Count(a.out, "Method") = 0
           /\ Count(a.out, "Black-Scholes") = 0

(***************************************************************************)
(* C8, as amended: a run that succeeds writes the complete report, with    *)
(* the NPV row exactly once, after the inputs and the "Method / European"  *)
(* header row and before the "Run completed in" line; a run in which a     *)
(* library call fails has already written the inputs, today's date and the *)
(* header row, and writes no NPV row and no timing line but one error      *)
(* line, last. The NPV row is never written more than once nor before the  *)
(* header row.                                                             *)
(***************************************************************************)
C8_ReportThenRowOrError ==
    /\ Count(a.out, "Black-Scholes") <= 1
    /\ Count(a.out, "Black-Scholes") = 1 =>
          /\ 0 < Pos(a.out, "inputs")
          /\ Pos(a.out, "inputs") < Pos(a.out, "Method")
          /\ Pos(a.out, "Method") < Pos(a.out, "Black-Scholes")
    /\ Count(a.out, "timing") = 1 =>
          /\ Count(a.out, "Black-Scholes") = 1
          /\ Pos(a.out, "Black-Scholes") < Pos(a.out, "timing")
    /\ a.pc = "done" =>
          /\ Count(a.out, "inputs") = 1
          /\ Count(a.out, "today") = 1
          /\ Count(a.out, "Method") = 1
          /\ IF a.ret = 0
             THEN /\ Count(a.out, "Black-Scholes") = 1
                  /\ Count(a.out, "timing") = 1
                  /\ Count(a.out, "error") = 0
             ELSE /\ Count(a.out, "Black-Scholes") = 0
                  /\ Count(a.out, "timing") = 0
                  /\ Count(a.out, "error") = 1
                  /\ a.out[Len(a.out)].k = "error"

C8_Witness ==
    /\ a.pc = "done"
    /\ a.ret = 1
    /\ env.fault = "npv"
    /\ Count(a.out, "Method") = 1
    /\ Count(a.out, "Black-Scholes") = 0

(***************************************************************************)
(* C9: main returns 0 only when EquityOption returned, the timing line was *)
(* printed and the prompt was answered; when an exception leaves the try   *)
(* block main prints one error line (e.what() for a std::exception,        *)
(* "unknown error" otherwise), returns 1, prints no timing line and does   *)
(* not wait for Enter; no exception is left pending when main returns.     *)
(***************************************************************************)
C9_ExitCode ==
    \A s \in {a, b} :
        /\ s.ret \in {0 - 1, 0, 1}
        /\ s.pc = "done" <=> s.ret # 0 - 1
        /\ s.exc # "none" <=> s.pc = "catch"
        /\ s.ret = 0 =>
              /\ env.fault = "none"
              /\ s.europeanOption.calculated
              /\ Count(s.out, "timing") = 1
              /\ Count(s.out, "prompt") = 1
              /\ s.stdinRead
              /\ Count(s.out, "error") = 0
        /\ s.pc = "done" /\ env.fault # "none" =>
              /\ s.ret = 1
              /\ Count(s.out, "error") = 1
              /\ s.out[Len(s.out)].str
                    = (IF env.kind = "std" THEN "e.what()" ELSE "unknown error")
              /\ Count(s.out, "timing") = 0
              /\ Count(s.out, "prompt") = 0
              /\ ~s.stdinRead

C9_Witness ==
    /\ a.pc = "done"
    /\ a.ret = 1
    /\ env.kind = "other"
    /\ b.pc = "done"
    /\ b.ret = 1

(***************************************************************************)
(* C10: after the decomposition of an elapsed time t >= 0,                 *)
(* hours * 3600 + minutes * 60 + seconds = t with 0 <= minutes < 60 and    *)
(* 0 <= seconds < 60; the hours are printed iff hours > 0, the minutes iff *)
(* hours > 0 or minutes > 0, and the seconds always.                       *)
(***************************************************************************)
C10_ElapsedDecomposition ==
    \A s \in {a, b} :
        s.pc = "PressEnter" =>
            /\ s.hours * TicksPerHour + s.minutes * TicksPerMinute + s.seconds
                   = env.elapsed
            /\ 0 <= s.hours
            /\ 0 <= s.minutes /\ s.minutes < 60
            /\ 0 <= s.seconds /\ s.seconds < 60 * TicksPerSecond
            /\ Count(s.out, "timing") = 1
            /\ Count(s.out, "h") = (IF s.hours > 0 THEN 1 ELSE 0)
            /\ Count(s.out, "m") = (IF s.hours > 0 \/ s.minutes > 0 THEN 1 ELSE 0)
            /\ Count(s.out, "s") = 1
            /\ s.hours > 0 => s.out[Pos(s.out, "h")].v = <<s.hours>>
            /\ Count(s.out, "m") = 1 => s.out[Pos(s.out, "m")].v = <<s.minutes>>
            /\ s.out[Len(s.out)] = Tok("s", " s\n", <<s.seconds>>)

C10_Witness ==
    /\ a.pc = "PressEnter"
    /\ b.pc = "PressEnter"
    /\ a.hours > 0
    /\ a.minutes = 0
    /\ a.seconds > 0
    /\ Count(a.out, "m") = 1

====
